---------------------------- MODULE Spec2Model ----------------------------
(***************************************************************************)
(* A model of the document repository of src/app.py and src/database.py:   *)
(* the upload handler (one process per request, one step per statement     *)
(* that touches the database or the upload folder), the document delete    *)
(* handler, the user delete handler, the read routes and the startup with  *)
(* its migration, over the documents table, the users table and the upload *)
(* folder.                                                                 *)
(***************************************************************************)
EXTENDS Integers, Sequences, FiniteSets, TLC

\* Files per upload request.
MaxBatch == 2
\* Ids the users table's AUTOINCREMENT hands out.
MaxUserId == 3

\* The upload requests, document delete workers and user delete workers.
Uploaders == {"u1", "u2"}
Deleters == {"d1"}
AdminReqs == {"a1", "a2"}
\* The workers that serve document delete requests, overlapping ones included.
DelWorkers == {"d1", "d2"}

VARIABLES
  docs,       \* documents table: id -> row
  doc_seq,    \* sqlite_sequence of documents: the largest id ever assigned
  clock,      \* CURRENT_TIMESTAMP, in seconds
  disk,       \* the upload folder: the set of file paths present
  up,         \* per upload request: position and locals of upload_files
  del,        \* per delete worker: position and locals of delete_document
  users,      \* users table: id -> row
  user_seq,   \* sqlite_sequence of users
  adm,        \* per user delete worker: position and locals of delete_user
  schema,     \* the documents table: "none", "old" (no content_hash), "new"
  boot,       \* the server process: position in __main__ and runs of init_db
  rd          \* the last read request and its response

vars ==
  <<docs, doc_seq, clock, disk, up, del, users, user_seq, adm, schema, boot, rd>>
docVars == <<docs, doc_seq, clock, disk, up, del>>
userVars == <<users, user_seq, adm>>
serverVars == <<schema, boot, rd>>

-----------------------------------------------------------------------------
(* Characters and strings: a string is a sequence of one-character strings. *)

lower(c) ==
  CASE c = "P" -> "p"
    [] c = "D" -> "d"
    [] c = "F" -> "f"
    [] OTHER -> c

LowerStr(s) == [i \in 1..Len(s) |-> lower(s[i])]

\* The characters secure_filename keeps: ASCII letters, digits, "_", "." and "-".
AsciiSafe ==
  {"a", "b", "c", "d", "e", "f", "n", "o", "p", "x", "P", "D", "F", "_", ".", "-"}

ALLOWED_EXTENSIONS ==
  { <<"p", "d", "f">>,
    <<"d", "o", "c">>, <<"d", "o", "c", "x">>,
    <<"x", "l", "s">>, <<"x", "l", "s", "x">>,
    <<"p", "p", "t">>, <<"p", "p", "t", "x">> }

\* Position of the last "." of s, 0 when there is none.
LastDot(s) ==
  LET dots == {i \in 1..Len(s) : s[i] = "."}
  IN IF dots = {} THEN 0 ELSE CHOOSE i \in dots : \A j \in dots : j <= i

\* s.rsplit('.', 1)[1]; only used where s holds a ".".
AfterLastDot(s) == SubSeq(s, LastDot(s) + 1, Len(s))

\* A test that lets every name with a "." through.
allowed_file_any_type(filename) ==
  /\ LastDot(filename) > 0
  /\ AfterLastDot(filename) # <<>>

allowed_file(filename) ==
  /\ LastDot(filename) > 0
  /\ LowerStr(AfterLastDot(filename)) \in ALLOWED_EXTENSIONS

RECURSIVE KeepSafe(_)
KeepSafe(s) ==
  IF s = <<>> THEN <<>>
  ELSE IF Head(s) \in AsciiSafe THEN <<Head(s)>> \o KeepSafe(Tail(s))
       ELSE KeepSafe(Tail(s))

RECURSIVE StripLeft(_)
StripLeft(s) ==
  IF s # <<>> /\ Head(s) \in {".", "_"} THEN StripLeft(Tail(s)) ELSE s

RECURSIVE StripRight(_)
StripRight(s) ==
  IF s # <<>> /\ s[Len(s)] \in {".", "_"}
  THEN StripRight(SubSeq(s, 1, Len(s) - 1)) ELSE s

\* werkzeug's secure_filename on names without whitespace or path separators:
\* non-ASCII and unsafe characters are dropped, then leading and trailing
\* "." and "_" are stripped.
secure_filename(filename) == StripRight(StripLeft(KeepSafe(filename)))

Ord(c) ==
  CASE c = "a" -> 97
    [] c = "b" -> 98
    [] c = "A" -> 65
    [] c = "%" -> 37
    [] c = "_" -> 95
    [] OTHER -> 63

\* 257 to the power n, modulo 32749.
RECURSIVE DigestPower(_)
DigestPower(n) ==
  IF n = 0 THEN 1
  ELSE LET h == DigestPower(n \div 2)
       IN IF n % 2 = 0 THEN (h * h) % 32749
          ELSE (((h * h) % 32749) * 257) % 32749

\* The bytes of s as the digits of a number in base 257, modulo 32749.
RECURSIVE DigestBytes(_)
DigestBytes(s) ==
  IF Len(s) = 0 THEN 0
  ELSE IF Len(s) = 1 THEN Ord(s[1])
  ELSE LET m == Len(s) \div 2
       IN (DigestBytes(SubSeq(s, 1, m)) * DigestPower(Len(s) - m)
           + DigestBytes(SubSeq(s, m + 1, Len(s)))) % 32749

\* SHA-256 of the UTF-8 bytes, as a digest that takes every byte and its
\* position in; on the texts of the model distinct texts get distinct digests.
calculate_content_hash(content) ==
  (7 * DigestPower(Len(content)) + DigestBytes(content)) % 32749

-----------------------------------------------------------------------------
(* Inputs. *)

\* Names a client can send: empty, allowed, allowed in upper case, a type
\* that is not allowed, no extension, and a name whose stem is non-ASCII.
Filenames ==
  { <<>>,
    <<"a", ".", "p", "d", "f">>,
    <<"b", ".", "P", "D", "F">>,
    <<"c", ".", "e", "x", "e">>,
    <<"n", "o">>,
    <<"U+6587", ".", "p", "d", "f">> }

\* What text extraction can yield for a file.
Texts == { <<"a">> }

Usernames == {"admin", "bob", "eve"}
Roles == {"user", "admin"}

-----------------------------------------------------------------------------
(* Values of locals. *)

Unbound == <<>>         \* a local that was never assigned (file_path)
NoHash == -1

NoExisting == [id |-> 0, original_filename |-> <<>>, upload_date |-> 0]
NoCheck == [is_duplicate |-> FALSE, content_hash |-> NoHash,
            existing_file |-> NoExisting]

UpInit ==
  [pc |-> "idle", n |-> 0, file |-> <<>>, original_filename |-> <<>>,
   file_extension |-> <<>>, unique_filename |-> <<>>, file_path |-> Unbound,
   content |-> <<>>, extract_ok |-> TRUE, duplicate_check |-> NoCheck,
   uploaded_files |-> <<>>, skipped_files |-> <<>>, errors |-> <<>>]

DelInit == [pc |-> "idle", doc_id |-> 0, file_path |-> <<>>, result |-> "none"]

AdmInit == [pc |-> "idle", session_user |-> 0, user_id |-> 0,
            admin_count |-> 0, result |-> "none"]

\* No read request answered yet.
RdInit == [op |-> "none", query |-> <<>>, doc_id |-> 0, status |-> 0,
           results |-> <<>>]

\* __main__ after init_db returned and app.run took over.
Serving == [pc |-> "serving", runs |-> 1]

\* The store init_db creates where there was none, with the server running.
Init ==
  /\ docs = <<>>
  /\ doc_seq = 0
  /\ clock = 0
  /\ disk = {}
  /\ up = [u \in Uploaders |-> UpInit]
  /\ del = [d \in DelWorkers |-> DelInit]
  /\ users = (1 :> [username |-> "admin", role |-> "admin"])
  /\ user_seq = 1
  /\ adm = [a \in AdminReqs |-> AdmInit]
  /\ schema = "new"
  /\ boot = Serving
  /\ rd = RdInit


-----------------------------------------------------------------------------
(* database.py: the documents table. *)

\* A lookup that compares the newest row only.
MatchingIdsNewestOnly(content_hash) ==
  {id \in DOMAIN docs :
     docs[id].content_hash = content_hash /\ \A other \in DOMAIN docs : other <= id}

\* SELECT id, original_filename, upload_date FROM documents
\* WHERE content_hash = ? LIMIT 1: the matching row with the lowest rowid.
MatchingIds(content_hash) ==
  {id \in DOMAIN docs : docs[id].content_hash = content_hash}

FirstId(ids) == CHOOSE id \in ids : \A other \in ids : id <= other

\* A lookup that reports the newest row of the table for any match.
check_duplicate_newest(content) ==
  LET content_hash == calculate_content_hash(content)
      found == MatchingIds(content_hash)
      newest == FirstId({id \in DOMAIN docs : \A other \in DOMAIN docs : other <= id})
  IN IF found # {}
     THEN [is_duplicate |-> TRUE, content_hash |-> NoHash,
           existing_file |->
             [id |-> newest,
              original_filename |-> docs[newest].original_filename,
              upload_date |-> docs[newest].upload_date]]
     ELSE [is_duplicate |-> FALSE, content_hash |-> content_hash,
           existing_file |-> NoExisting]

check_duplicate(content) ==
  LET content_hash == calculate_content_hash(content)
      found == MatchingIds(content_hash)
  IN IF found # {}
     THEN [is_duplicate |-> TRUE, content_hash |-> NoHash,
           existing_file |->
             [id |-> FirstId(found),
              original_filename |-> docs[FirstId(found)].original_filename,
              upload_date |-> docs[FirstId(found)].upload_date]]
     ELSE [is_duplicate |-> FALSE, content_hash |-> content_hash,
           existing_file |-> NoExisting]

\* A delete whose WHERE clause takes every id up to the one asked for.
RowsWithoutUpTo(doc_id) ==
  [id \in {i \in DOMAIN docs : i > doc_id} |-> docs[id]]

\* A delete that leaves the row in the table.
RowsKept(doc_id) == [id \in DOMAIN docs |-> docs[id]]

\* The table after DELETE FROM documents WHERE id = ?.
RowsWithout(doc_id) == [id \in DOMAIN docs \ {doc_id} |-> docs[id]]

-----------------------------------------------------------------------------
(* app.py: upload_files, one request per uploader. The statements of one   *)
(* iteration that touch only the request's locals and its own new file     *)
(* (the names, file.save, the extraction) are taken in one step with the   *)
(* first statement that reads the database.                                *)

Inactive(u) == up[u].pc \in {"idle", "done", "crashed", "rejected"}

\* The request arrives with a files[] part: the lists start empty.
UploadStart(u) ==
  /\ up[u].pc = "idle"
  /\ up' = [up EXCEPT ![u].pc = "loop"]
  /\ UNCHANGED <<docs, doc_seq, clock, disk, del, userVars, serverVars>>

\* The request has no files[] part: 400, no report.
UploadNoFiles(u) ==
  /\ up[u].pc = "idle"
  /\ up' = [up EXCEPT ![u].pc = "rejected"]
  /\ UNCHANGED <<docs, doc_seq, clock, disk, del, userVars, serverVars>>

\* Locals that are assigned again before their next read are cleared; file_path
\* keeps its binding from one iteration to the next, as the Python local does.
NextIteration(r) ==
  [r EXCEPT !.pc = "loop", !.file = <<>>, !.original_filename = <<>>,
            !.file_extension = <<>>, !.unique_filename = <<>>,
            !.content = <<>>, !.extract_ok = TRUE,
            !.duplicate_check = NoCheck]

\* Files a request carries at most: the first request a batch, every other
\* request a single file.
BatchLimit(u) == IF u = "u1" THEN MaxBatch ELSE 1

\* The loop has another file to take.
HasNext(u) ==
  /\ up[u].pc = "loop"
  /\ up[u].n < BatchLimit(u)

\* The next file of the batch goes into the try block.
EntersTry(u, filename) ==
  /\ HasNext(u)
  /\ filename # <<>>
  /\ allowed_file(filename)

\* Lines 155-158: the names computed from the sanitized filename; uuid4 is a
\* token no other file of any request gets.
Prepared(u, filename) ==
  LET original_filename == secure_filename(filename)
      file_extension == LowerStr(AfterLastDot(original_filename))
      unique_filename == <<u, up[u].n + 1, file_extension>>
  IN [up[u] EXCEPT
        !.n = @ + 1, !.file = filename,
        !.original_filename = original_filename,
        !.file_extension = file_extension,
        !.unique_filename = unique_filename,
        !.file_path = <<"uploads", unique_filename>>]

\* for file in files: a file with an empty filename is passed over.
UploadSkipEmpty(u) ==
  /\ HasNext(u)
  /\ \E filename \in Filenames :
       /\ filename = <<>>
       /\ up' = [up EXCEPT ![u].n = @ + 1]
  /\ UNCHANGED <<docs, doc_seq, clock, disk, del, userVars, serverVars>>

\* allowed_file fails: the else branch reports the file in errors.
UploadReject(u) ==
  /\ HasNext(u)
  /\ \E filename \in Filenames :
       /\ filename # <<>>
       /\ ~allowed_file(filename)
       /\ up' = [up EXCEPT
            ![u].n = @ + 1,
            ![u].errors = Append(@, [filename |-> filename,
                                     error |-> "File type not allowed"])]
  /\ UNCHANGED <<docs, doc_seq, clock, disk, del, userVars, serverVars>>

\* The sanitized filename has no "." left: rsplit(...)[1] raises IndexError
\* before file_path is assigned for this file.
UploadPrepareRaises(u) ==
  /\ \E filename \in Filenames :
       /\ EntersTry(u, filename)
       /\ LastDot(secure_filename(filename)) = 0
       /\ up' = [up EXCEPT
            ![u].n = @ + 1, ![u].file = filename, ![u].pc = "except"]
  /\ UNCHANGED <<docs, doc_seq, clock, disk, del, userVars, serverVars>>

\* file.save raises (disk full, folder missing): the file may be there in part.
UploadSaveRaises(u) ==
  /\ \E filename \in Filenames, partial \in BOOLEAN :
       /\ EntersTry(u, filename)
       /\ LastDot(secure_filename(filename)) > 0
       /\ up' = [up EXCEPT ![u] = [Prepared(u, filename) EXCEPT
                                     !.pc = "except"]]
       /\ disk' = IF partial
                  THEN disk \cup {Prepared(u, filename).file_path} ELSE disk
  /\ UNCHANGED <<docs, doc_seq, clock, del, userVars, serverVars>>

\* extract_text_from_file: the converter's text, or "" when it raises.
Extracted == [text : Texts, ok : {TRUE}] \cup [text : {<<>>}, ok : {FALSE}]

\* The file is saved, its text extracted and
\* duplicate_check = database.check_duplicate(content) evaluated.
UploadCheckDuplicate(u) ==
  /\ \E filename \in Filenames, x \in Extracted :
       /\ EntersTry(u, filename)
       /\ LastDot(secure_filename(filename)) > 0
       /\ up' = [up EXCEPT ![u] = [Prepared(u, filename) EXCEPT
            !.pc = "branch", !.content = x.text, !.extract_ok = x.ok,
            !.duplicate_check = check_duplicate(x.text)]]
       /\ disk' = disk \cup {Prepared(u, filename).file_path}
  /\ UNCHANGED <<docs, doc_seq, clock, del, userVars, serverVars>>

\* The file is saved and check_duplicate raises (database locked).
UploadCheckRaises(u) ==
  /\ \E filename \in Filenames :
       /\ EntersTry(u, filename)
       /\ LastDot(secure_filename(filename)) > 0
       /\ up' = [up EXCEPT ![u] = [Prepared(u, filename) EXCEPT
                                     !.pc = "except"]]
       /\ disk' = disk \cup {Prepared(u, filename).file_path}
  /\ UNCHANGED <<docs, doc_seq, clock, del, userVars, serverVars>>

\* The duplicate branch: the binary is removed and the file reported skipped.
UploadDiscardDuplicate(u) ==
  /\ up[u].pc = "branch"
  /\ up[u].duplicate_check.is_duplicate
  /\ IF up[u].file_path \in disk
     THEN /\ disk' = disk \ {up[u].file_path}
          /\ up' = [up EXCEPT ![u] = NextIteration(
               [@ EXCEPT !.skipped_files = Append(@,
                  [filename |-> up[u].original_filename,
                   reason |-> "duplicate",
                   existing_filename |->
                     up[u].duplicate_check.existing_file.original_filename,
                   existing_upload_date |->
                     up[u].duplicate_check.existing_file.upload_date])])]
     ELSE \* os.remove raises FileNotFoundError
          /\ disk' = disk
          /\ up' = [up EXCEPT ![u] = NextIteration(@), ![u].pc = "except"]
  /\ UNCHANGED <<docs, doc_seq, clock, del, userVars, serverVars>>

\* An insert into a table whose id is a plain INTEGER PRIMARY KEY: the id after
\* the largest one in the table.
insert_document_rowid(filename, original_filename, file_path, file_type, content, content_hash, now) ==
  LET top == IF DOMAIN docs = {} THEN 0
             ELSE CHOOSE id \in DOMAIN docs : \A other \in DOMAIN docs : other <= id
  IN docs @@ ((top + 1) :>
       [filename |-> filename, original_filename |-> original_filename,
        file_path |-> file_path, file_type |-> file_type, content |-> content,
        content_hash |-> content_hash, upload_date |-> now])

\* An insert that stores the fingerprint and leaves the text out.
insert_document_no_content(filename, original_filename, file_path, file_type, content, content_hash, now) ==
  docs @@ ((doc_seq + 1) :>
    [filename |-> filename, original_filename |-> original_filename,
     file_path |-> file_path, file_type |-> file_type, content |-> <<>>,
     content_hash |-> content_hash, upload_date |-> now])

\* An insert that a unique index on content_hash turns into a no-op.
insert_document_unique(filename, original_filename, file_path, file_type, content, content_hash, now) ==
  IF MatchingIds(content_hash) # {} THEN docs
  ELSE docs @@ ((doc_seq + 1) :>
    [filename |-> filename, original_filename |-> original_filename,
     file_path |-> file_path, file_type |-> file_type, content |-> content,
     content_hash |-> content_hash, upload_date |-> now])

\* The rows after insert_document: AUTOINCREMENT hands out the id after the
\* largest ever assigned; upload_date is CURRENT_TIMESTAMP.
insert_document(filename, original_filename, file_path, file_type, content, content_hash, now) ==
  docs @@ ((doc_seq + 1) :>
    [filename |-> filename, original_filename |-> original_filename,
     file_path |-> file_path, file_type |-> file_type, content |-> content,
     content_hash |-> content_hash, upload_date |-> now])

\* CURRENT_TIMESTAMP at an insert: the second of the last insert or the next
\* one (the first insert's second is taken as 0).
Now == IF doc_seq = 0 THEN {clock} ELSE {clock, clock + 1}

\* The fresh branch: insert_document, then the file is reported uploaded.
UploadInsert(u) ==
  /\ up[u].pc = "branch"
  /\ ~up[u].duplicate_check.is_duplicate
  /\ \E now \in Now :
       /\ clock' = now
       /\ docs' = insert_document(up[u].unique_filename,
                    up[u].original_filename, up[u].file_path,
                    up[u].file_extension, up[u].content,
                    up[u].duplicate_check.content_hash, now)
  /\ doc_seq' = doc_seq + 1
  /\ up' = [up EXCEPT ![u] = NextIteration(
       [@ EXCEPT !.uploaded_files = Append(@,
          [id |-> doc_seq + 1, filename |-> up[u].original_filename,
           status |-> "success"])])]
  /\ UNCHANGED <<disk, del, userVars, serverVars>>

\* insert_document raises (database locked, disk full).
UploadInsertRaises(u) ==
  /\ up[u].pc = "branch"
  /\ ~up[u].duplicate_check.is_duplicate
  /\ up' = [up EXCEPT ![u] = NextIteration(@), ![u].pc = "except"]
  /\ UNCHANGED <<docs, doc_seq, clock, disk, del, userVars, serverVars>>

\* A handler that reports the error and leaves the file where it is.
UploadExceptKeepsFile(u) ==
  /\ up[u].pc = "except"
  /\ up[u].file_path # Unbound
  /\ up' = [up EXCEPT ![u] = NextIteration(
       [@ EXCEPT !.errors = Append(@, [filename |-> up[u].file,
                                       error |-> "exception"])])]
  /\ UNCHANGED <<docs, doc_seq, clock, disk, del, userVars, serverVars>>

\* except Exception: file_path is whatever the local is bound to; the file
\* there is removed when it exists and the file is reported in errors.
UploadExcept(u) ==
  /\ up[u].pc = "except"
  /\ up[u].file_path # Unbound
  /\ disk' = disk \ {up[u].file_path}
  /\ up' = [up EXCEPT ![u] = NextIteration(
       [@ EXCEPT !.errors = Append(@, [filename |-> up[u].file,
                                       error |-> "exception"])])]
  /\ UNCHANGED <<docs, doc_seq, clock, del, userVars, serverVars>>

\* except Exception with file_path never assigned: reading it raises
\* UnboundLocalError out of the handler, and the request ends in a 500.
UploadExceptRaises(u) ==
  /\ up[u].pc = "except"
  /\ up[u].file_path = Unbound
  /\ up' = [up EXCEPT ![u].pc = "crashed"]
  /\ UNCHANGED <<docs, doc_seq, clock, disk, del, userVars, serverVars>>

\* The loop is over: the report is returned.
UploadReturn(u) ==
  /\ up[u].pc = "loop"
  /\ up' = [up EXCEPT ![u].pc = "done"]
  /\ UNCHANGED <<docs, doc_seq, clock, disk, del, userVars, serverVars>>

UploadStep(u) ==
  \/ UploadSkipEmpty(u)
  \/ UploadReject(u)
  \/ UploadPrepareRaises(u)
  \/ UploadSaveRaises(u)
  \/ UploadCheckDuplicate(u)
  \/ UploadCheckRaises(u)
  \/ UploadDiscardDuplicate(u)
  \/ UploadInsert(u)
  \/ UploadInsertRaises(u)
  \/ UploadExcept(u)
  \/ UploadExceptRaises(u)
  \/ UploadReturn(u)

-----------------------------------------------------------------------------
(* app.py and database.py: delete_document, one request at a time per worker. *)

\* SELECT file_path FROM documents WHERE id = ?; no row: 404.
DeleteSelect(d) ==
  /\ del[d].pc = "idle"
  /\ \E doc_id \in 1..(doc_seq + 1) :
       IF doc_id \in DOMAIN docs
       THEN del' = [del EXCEPT ![d] = [pc |-> "delete", doc_id |-> doc_id,
                      file_path |-> docs[doc_id].file_path, result |-> "none"]]
       ELSE del' = [del EXCEPT ![d] = [pc |-> "done", doc_id |-> doc_id,
                      file_path |-> <<>>, result |-> "Document not found"]]
  /\ UNCHANGED <<docs, doc_seq, clock, disk, up, userVars, serverVars>>

\* DELETE FROM documents WHERE id = ?; commit; the result carries file_path.
DeleteRow(d) ==
  /\ del[d].pc = "delete"
  /\ docs' = RowsWithout(del[d].doc_id)
  /\ del' = [del EXCEPT ![d].pc = "unlink", ![d].result = "success"]
  /\ UNCHANGED <<doc_seq, clock, disk, up, userVars, serverVars>>

\* The route removes the binary when it exists and answers success.
DeleteFile(d) ==
  /\ del[d].pc = "unlink"
  /\ disk' = disk \ {del[d].file_path}
  /\ del' = [del EXCEPT ![d].pc = "done"]
  /\ UNCHANGED <<docs, doc_seq, clock, up, userVars, serverVars>>

\* The worker takes the next request.
DeleteNext(d) ==
  /\ del[d].pc = "done"
  /\ del' = [del EXCEPT ![d] = DelInit]
  /\ UNCHANGED <<docs, doc_seq, clock, disk, up, userVars, serverVars>>

DeleteStep(d) ==
  \/ DeleteSelect(d)
  \/ DeleteRow(d)
  \/ DeleteFile(d)
  \/ DeleteNext(d)

-----------------------------------------------------------------------------

\* One upload request, with document deletes overlapping it.
Next ==
  \/ UploadStart("u1") \/ UploadNoFiles("u1") \/ UploadStep("u1")
  \/ \E d \in Deleters : DeleteStep(d)

Spec == Init /\ [][Next]_vars

\* Upload requests served one at a time, with document deletes overlapping.
NextSeq ==
  \/ \E u \in Uploaders :
       \/ (\A v \in Uploaders \ {u} : Inactive(v))
            /\ (UploadStart(u) \/ UploadNoFiles(u))
       \/ UploadStep(u)
  \/ \E d \in Deleters : DeleteSelect(d) \/ DeleteRow(d) \/ DeleteFile(d)

SpecSeq == Init /\ [][NextSeq]_vars

\* Upload requests overlapping freely.
NextRace ==
  \E u \in Uploaders : UploadStart(u) \/ UploadNoFiles(u) \/ UploadStep(u)

SpecRace == Init /\ [][NextRace]_vars

\* One upload request, with document delete requests overlapping it and each
\* other.
NextDelRace ==
  \/ UploadStart("u1") \/ UploadNoFiles("u1") \/ UploadStep("u1")
  \/ \E d \in DelWorkers : DeleteSelect(d) \/ DeleteRow(d) \/ DeleteFile(d)

SpecDelRace == Init /\ [][NextDelRace]_vars

-----------------------------------------------------------------------------
(* database.py and app.py: the read side. *)

\* substr(content, 1, 200)
PreviewLen == 200

\* SQLite's LIKE folds the case of ASCII letters.
sqlite_fold(c) ==
  CASE c = "A" -> "a"
    [] c = "B" -> "b"
    [] OTHER -> c

\* text LIKE pattern: "%" matches any run of characters, "_" any one
\* character, every other character itself up to ASCII case.
RECURSIVE Like(_, _)
Like(pattern, text) ==
  IF pattern = <<>> THEN text = <<>>
  ELSE IF Head(pattern) = "%"
       THEN \E k \in 0..Len(text) :
              Like(Tail(pattern), SubSeq(text, k + 1, Len(text)))
  ELSE IF text = <<>> THEN FALSE
  ELSE IF Head(pattern) = "_" THEN Like(Tail(pattern), Tail(text))
  ELSE /\ sqlite_fold(Head(pattern)) = sqlite_fold(Head(text))
       /\ Like(Tail(pattern), Tail(text))

\* substr(content, 1, 200)
substr(content) ==
  SubSeq(content, 1, IF Len(content) < PreviewLen THEN Len(content) ELSE PreviewLen)

\* ORDER BY upload_date DESC: the orders of the rows ids in which no row comes
\* before a row with a later upload_date; rows of one second come in the order
\* the engine happens to produce.
OrderByUploadDateDesc(ids) ==
  {q \in [1..Cardinality(ids) -> ids] :
     /\ \A i, j \in DOMAIN q : i # j => q[i] # q[j]
     /\ \A i, j \in DOMAIN q :
          i < j => docs[q[i]].upload_date >= docs[q[j]].upload_date}

\* The possible results of get_all_documents.
get_all_documents ==
  {[i \in DOMAIN q |->
      [id |-> q[i], original_filename |-> docs[q[i]].original_filename,
       file_type |-> docs[q[i]].file_type,
       upload_date |-> docs[q[i]].upload_date]] :
   q \in OrderByUploadDateDesc(DOMAIN docs)}

\* The possible results of search_documents(query).
search_documents(query) ==
  {[i \in DOMAIN q |->
      [id |-> q[i], original_filename |-> docs[q[i]].original_filename,
       file_type |-> docs[q[i]].file_type,
       upload_date |-> docs[q[i]].upload_date,
       preview |-> substr(docs[q[i]].content)]] :
   q \in OrderByUploadDateDesc(
          {id \in DOMAIN docs :
             Like(<<"%">> \o query \o <<"%">>, docs[id].content)})}

\* A route that sends every query, the empty one too, to search_documents.
search_unrouted(query) == search_documents(query)

\* The route /api/search: no query lists all documents.
search(query) ==
  IF query = <<>> THEN get_all_documents ELSE search_documents(query)

\* The row of doc_id without filename and content_hash, or None.
get_document_by_id(doc_id) ==
  IF doc_id \in DOMAIN docs
  THEN <<[id |-> doc_id,
          original_filename |-> docs[doc_id].original_filename,
          file_path |-> docs[doc_id].file_path,
          file_type |-> docs[doc_id].file_type,
          content |-> docs[doc_id].content,
          upload_date |-> docs[doc_id].upload_date]>>
  ELSE <<>>

\* Queries a client sends: none, letters in either case, the LIKE wildcards.
Queries == { <<>>, <<"a">>, <<"A">>, <<"b">>, <<"%">>, <<"_">> }

\* GET /api/search?q=
Search ==
  /\ \E query \in Queries :
       \E results \in search(query) :
         rd' = [op |-> "search", query |-> query, doc_id |-> 0,
                status |-> 200, results |-> results]
  /\ UNCHANGED <<docVars, userVars, schema, boot>>

\* GET /api/document/<doc_id>
GetDocument ==
  /\ \E doc_id \in 1..(doc_seq + 1) :
       LET document == get_document_by_id(doc_id)
       IN rd' = [op |-> "document", query |-> <<>>, doc_id |-> doc_id,
                 status |-> IF document # <<>> THEN 200 ELSE 404,
                 results |-> document]
  /\ UNCHANGED <<docVars, userVars, schema, boot>>

\* GET /api/download/<doc_id>: the file is sent under its original filename
\* when the row and the binary are there.
Download ==
  /\ \E doc_id \in 1..(doc_seq + 1) :
       LET document == get_document_by_id(doc_id)
           found == document # <<>> /\ document[1].file_path \in disk
       IN rd' = [op |-> "download", query |-> <<>>, doc_id |-> doc_id,
                 status |-> IF found THEN 200 ELSE 404,
                 results |-> IF found
                             THEN <<[file_path |-> document[1].file_path,
                                     download_name |->
                                       document[1].original_filename]>>
                             ELSE <<>>]
  /\ UNCHANGED <<docVars, userVars, schema, boot>>

\* Rows a store holds at most when the reads begin.
MaxRows == 2

\* A text longer than a preview.
LongText == [i \in 1..(PreviewLen + 1) |-> "a"]

\* Texts of stored documents.
QueryTexts == { <<"a">>, <<"A", "b">>, <<"b", "%">>, LongText }

\* The row an upload of a.pdf with the given text leaves under id.
StoredRow(id, text, date) ==
  [filename |-> <<"u1", id, <<"p", "d", "f">>>>,
   original_filename |-> <<"a", ".", "p", "d", "f">>,
   file_path |-> <<"uploads", <<"u1", id, <<"p", "d", "f">>>>>>,
   file_type |-> <<"p", "d", "f">>, content |-> text,
   content_hash |-> calculate_content_hash(text), upload_date |-> date]

\* Stores that uploads leave: ids from 1, one row per text, upload dates that
\* do not decrease with the id, two rows of one second included.
QueryStores ==
  UNION {
    {[id \in 1..n |-> StoredRow(id, t[id], d[id])] :
       t \in {f \in [1..n -> QueryTexts] :
                \A i, j \in 1..n : i # j => f[i] # f[j]},
       d \in {g \in [1..n -> 0..1] :
                \A i, j \in 1..n : i < j => g[i] <= g[j]}} :
    n \in 0..MaxRows}

\* The server runs on a store that earlier uploads filled; the binary of a
\* document may have been lost from the upload folder.
InitQuery ==
  /\ docs \in QueryStores
  /\ doc_seq = Len(docs)
  /\ clock = 1
  /\ disk \in {{docs[id].file_path : id \in DOMAIN docs},
               {docs[id].file_path : id \in DOMAIN docs \ {1}}}
  /\ up = [u \in Uploaders |-> UpInit]
  /\ del = [d \in DelWorkers |-> DelInit]
  /\ users = (1 :> [username |-> "admin", role |-> "admin"])
  /\ user_seq = 1
  /\ adm = [a \in AdminReqs |-> AdmInit]
  /\ schema = "new"
  /\ boot = Serving
  /\ rd = RdInit

\* Read requests, one after the other.
NextQuery == Search \/ GetDocument \/ Download

SpecQuery == InitQuery /\ [][NextQuery]_vars

-----------------------------------------------------------------------------
(* database.py and app.py: startup, init_db and its migration. *)

\* Completed runs of init_db.
MaxRuns == 3

\* content_hash TEXT NOT NULL DEFAULT '': the empty string, which is the
\* digest of no text.
DefaultHash == -2
\* The row has no content_hash column.
NoColumn == -3

\* A check that never finds the column.
check_column_exists_never == FALSE

\* check_column_exists(cursor, 'documents', 'content_hash')
check_column_exists == schema = "new"

\* ALTER TABLE documents ADD COLUMN content_hash TEXT NOT NULL DEFAULT ''
AddColumn(rows) ==
  [id \in DOMAIN rows |-> [rows[id] EXCEPT !.content_hash = DefaultHash]]

\* The UPDATE of every row the SELECT id, content returned.
Backfilled(rows) ==
  [id \in DOMAIN rows |->
     [rows[id] EXCEPT !.content_hash = calculate_content_hash(rows[id].content)]]

\* Stores of the version before content_hash: no column, and no check for
\* duplicates when the rows were inserted.
OldStores ==
  UNION {
    {[id \in 1..n |-> [StoredRow(id, t[id], d[id]) EXCEPT
                         !.content_hash = NoColumn]] :
       t \in [1..n -> Texts \cup {<<>>}],
       d \in {g \in [1..n -> 0..1] :
                \A i, j \in 1..n : i < j => g[i] <= g[j]}} :
    n \in 0..MaxRows}

\* The server is not running; the store is one of an older version, or there
\* is none yet.
InitStartup ==
  /\ docs \in OldStores
  /\ schema \in IF docs = <<>> THEN {"none", "old"} ELSE {"old"}
  /\ doc_seq = Len(docs)
  /\ clock = 1
  /\ disk = {docs[id].file_path : id \in DOMAIN docs}
  /\ up = [u \in Uploaders |-> UpInit]
  /\ del = [d \in DelWorkers |-> DelInit]
  /\ users = IF schema = "none" THEN <<>>
             ELSE (1 :> [username |-> "admin", role |-> "admin"])
  /\ user_seq = IF schema = "none" THEN 0 ELSE 1
  /\ adm = [a \in AdminReqs |-> AdmInit]
  /\ boot = [pc |-> "stopped", runs |-> 0]
  /\ rd = RdInit

\* init_db begins: migrate_existing_database down to its ALTER TABLE, which
\* runs outside a transaction and is durable at once. Nothing happens here
\* when there is no table or the column is there.
InitDbAlter ==
  /\ boot.pc = "stopped"
  /\ boot.runs < MaxRuns
  /\ IF schema # "none" /\ ~check_column_exists
     THEN /\ docs' = AddColumn(docs)
          /\ schema' = "new"
          /\ boot' = [boot EXCEPT !.pc = "backfill"]
     ELSE /\ docs' = docs
          /\ schema' = schema
          /\ boot' = [boot EXCEPT !.pc = "create"]
  /\ UNCHANGED <<doc_seq, clock, disk, up, del, userVars, rd>>

\* The rest of init_db down to conn.commit(): the UPDATEs of the backfill when
\* the column was just added, CREATE TABLE IF NOT EXISTS, the index, the users
\* table and the default admin when there is no user.
InitDbCommit ==
  /\ boot.pc \in {"backfill", "create"}
  /\ docs' = IF boot.pc = "backfill" THEN Backfilled(docs) ELSE docs
  /\ schema' = "new"
  /\ users' = IF DOMAIN users = {}
              THEN ((user_seq + 1) :> [username |-> "admin", role |-> "admin"])
              ELSE users
  /\ user_seq' = IF DOMAIN users = {} THEN user_seq + 1 ELSE user_seq
  /\ boot' = [pc |-> "ready", runs |-> boot.runs + 1]
  /\ UNCHANGED <<doc_seq, clock, disk, up, del, adm, rd>>

\* The process is killed inside init_db before conn.commit(): the open
\* transaction, with the UPDATEs of the backfill, is rolled back.
InitDbInterrupted ==
  /\ boot.pc \in {"backfill", "create"}
  /\ boot' = [boot EXCEPT !.pc = "stopped"]
  /\ UNCHANGED <<docVars, userVars, schema, rd>>

\* __main__ goes on to app.run: requests are served from here on.
AppRun ==
  /\ boot.pc = "ready"
  /\ boot' = [boot EXCEPT !.pc = "serving"]
  /\ UNCHANGED <<docVars, userVars, schema, rd>>

\* The process ends and is started again.
Restart ==
  /\ boot.pc = "ready"
  /\ boot' = [boot EXCEPT !.pc = "stopped"]
  /\ UNCHANGED <<docVars, userVars, schema, rd>>

\* Startup run after run on one store, every run to its end.
NextMigrate == InitDbAlter \/ InitDbCommit \/ Restart

SpecMigrate == InitStartup /\ [][NextMigrate]_vars

\* Startup, interrupted or not, and then the requests of the running server.
NextStartup ==
  \/ InitDbAlter \/ InitDbCommit \/ InitDbInterrupted \/ AppRun
  \/ /\ boot.pc = "serving"
     /\ \/ UploadStart("u2") \/ UploadNoFiles("u2") \/ UploadStep("u2")
        \/ \E d \in Deleters : DeleteSelect(d) \/ DeleteRow(d) \/ DeleteFile(d)
        \/ Search

SpecStartup == InitStartup /\ [][NextStartup]_vars

-----------------------------------------------------------------------------
(* app.py and database.py: the users table. *)

AdminIds == {id \in DOMAIN users : users[id].role = "admin"}

\* admin_required: the session's user exists and has the admin role.
admin_required(session_user) ==
  /\ session_user \in DOMAIN users
  /\ users[session_user].role = "admin"

\* The rows after DELETE FROM users WHERE id = ?.
UsersWithout(user_id) == [id \in DOMAIN users \ {user_id} |-> users[id]]

\* create_user behind its admin-only route: one INSERT; a username in use
\* raises IntegrityError and changes nothing.
CreateUser ==
  /\ \E session_user \in DOMAIN users : admin_required(session_user)
  /\ user_seq < MaxUserId
  /\ \E username \in Usernames, role \in Roles :
       /\ \A id \in DOMAIN users : users[id].username # username
       /\ users' = users @@
            ((user_seq + 1) :> [username |-> username, role |-> role])
  /\ user_seq' = user_seq + 1
  /\ UNCHANGED <<serverVars, docVars, adm>>

\* The route: admin_required, then the check that an admin does not delete
\* their own account; database.delete_user is called next.
DelUserRoute(a) ==
  /\ adm[a].pc = "idle"
  /\ \E session_user \in 1..user_seq, user_id \in 1..(user_seq + 1) :
       adm' = [adm EXCEPT ![a] =
         [AdmInit EXCEPT
            !.session_user = session_user, !.user_id = user_id,
            !.pc = IF admin_required(session_user) /\ user_id # session_user
                   THEN "count" ELSE "done",
            !.result = IF ~admin_required(session_user) THEN "forbidden"
                       ELSE IF user_id = session_user THEN "own account"
                       ELSE "none"]]
  /\ UNCHANGED <<serverVars, docVars, users, user_seq>>

\* SELECT COUNT(*) FROM users WHERE role = 'admin'
DelUserCount(a) ==
  /\ adm[a].pc = "count"
  /\ adm' = [adm EXCEPT ![a].pc = "role",
                        ![a].admin_count = Cardinality(AdminIds)]
  /\ UNCHANGED <<serverVars, docVars, users, user_seq>>

\* The last-admin test off by one.
delete_user_decision_lt(user_id, admin_count) ==
  IF user_id \notin DOMAIN users THEN "user not found"
  ELSE IF users[user_id].role = "admin" /\ admin_count < 1 THEN "last admin"
  ELSE "delete"

\* What delete_user decides after SELECT role FROM users WHERE id = ?.
delete_user_decision(user_id, admin_count) ==
  IF user_id \notin DOMAIN users THEN "user not found"
  ELSE IF users[user_id].role = "admin" /\ admin_count <= 1 THEN "last admin"
  ELSE "delete"

\* SELECT role, then the two early returns.
DelUserRole(a) ==
  /\ adm[a].pc = "role"
  /\ LET decision == delete_user_decision(adm[a].user_id, adm[a].admin_count)
     IN adm' = [adm EXCEPT
          ![a].pc = IF decision = "delete" THEN "delete" ELSE "done",
          ![a].result = IF decision = "delete" THEN "none" ELSE decision]
  /\ UNCHANGED <<serverVars, docVars, users, user_seq>>

\* DELETE FROM users WHERE id = ?; commit.
DelUserDelete(a) ==
  /\ adm[a].pc = "delete"
  /\ users' = UsersWithout(adm[a].user_id)
  /\ adm' = [adm EXCEPT ![a].pc = "done", ![a].result = "success"]
  /\ UNCHANGED <<serverVars, docVars, user_seq>>

\* The worker takes the next request.
DelUserNext(a) ==
  /\ adm[a].pc = "done"
  /\ adm' = [adm EXCEPT ![a] = AdmInit]
  /\ UNCHANGED <<serverVars, docVars, users, user_seq>>

DelUserStep(a) ==
  \/ DelUserRoute(a)
  \/ DelUserCount(a)
  \/ DelUserRole(a)
  \/ DelUserDelete(a)
  \/ DelUserNext(a)

\* User management requests overlapping freely.
NextUsers ==
  \/ CreateUser
  \/ \E a \in AdminReqs : DelUserStep(a)

SpecUsers == Init /\ [][NextUsers]_vars

\* A worker is inside database.delete_user.
InCall(a) == adm[a].pc \in {"role", "delete"}

\* Calls of the database layer run one at a time (the routes still overlap).
NextUsersSeq ==
  \/ (\A a \in AdminReqs : ~InCall(a)) /\ CreateUser
  \/ \E a \in AdminReqs :
       (\A b \in AdminReqs \ {a} : ~InCall(b)) /\ DelUserStep(a)

SpecUsersSeq == Init /\ [][NextUsersSeq]_vars

-----------------------------------------------------------------------------
(* Properties. *)

Reported(u) ==
  Len(up[u].uploaded_files) + Len(up[u].skipped_files) + Len(up[u].errors)

SeqToSet(q) == {q[i] : i \in 1..Len(q)}

\* C1: with upload requests served one at a time, after any uploads and
\* document deletes no two live rows have the same content_hash.
C1_UniqueContentHash ==
  \A i, j \in DOMAIN docs :
    i # j => docs[i].content_hash # docs[j].content_hash

\* Two live rows after a third file was skipped as a duplicate.
C1_Witness ==
  /\ Cardinality(DOMAIN docs) >= 2
  /\ \E u \in Uploaders : up[u].skipped_files # <<>>

\* The live rows whose text is content.
SameContentIds(content) == {id \in DOMAIN docs : docs[id].content = content}

\* The step of u that evaluates check_duplicate: a live row with the same text
\* makes the verdict a duplicate that names this row's filename and date.
C2_CheckFindsFirst ==
  \A u \in Uploaders :
    (up[u].pc = "loop" /\ up'[u].pc = "branch"
       /\ SameContentIds(up'[u].content) # {})
    => /\ up'[u].duplicate_check.is_duplicate
       /\ \E id \in SameContentIds(up'[u].content) :
            /\ up'[u].duplicate_check.existing_file.original_filename
                 = docs[id].original_filename
            /\ up'[u].duplicate_check.existing_file.upload_date
                 = docs[id].upload_date

\* The step of u after a duplicate verdict: no row is added, the binary is
\* gone and the file is appended to skipped with the first file's data.
C2_DuplicateIsSkipped ==
  \A u \in Uploaders :
    (up[u].pc = "branch" /\ up[u].duplicate_check.is_duplicate
       /\ up'[u] # up[u])
    => /\ docs' = docs
       /\ up[u].file_path \notin disk'
       /\ up'[u].uploaded_files = up[u].uploaded_files
       /\ up'[u].errors = up[u].errors
       /\ up'[u].skipped_files = Append(up[u].skipped_files,
            [filename |-> up[u].original_filename, reason |-> "duplicate",
             existing_filename |->
               up[u].duplicate_check.existing_file.original_filename,
             existing_upload_date |->
               up[u].duplicate_check.existing_file.upload_date])

C2_OneRowPerContent ==
  \A i, j \in DOMAIN docs : i # j => docs[i].content # docs[j].content

\* C2: uploading the same extracted text twice in sequence, under any two
\* filenames, keeps one row; the second file is reported skipped with the
\* first file's original filename and upload date and its binary is removed.
C2_SameContentTwice ==
  /\ []C2_OneRowPerContent
  /\ [][C2_CheckFindsFirst /\ C2_DuplicateIsSkipped]_vars

\* A file skipped as the duplicate of a file uploaded under another name by
\* another request, with the one row of that text still live.
C2_Witness ==
  \E u \in Uploaders : \E v \in Uploaders \ {u} :
    /\ up[u].skipped_files # <<>>
    /\ up[v].uploaded_files # <<>>
    /\ LET s == up[u].skipped_files[1]
           id == up[v].uploaded_files[1].id
       IN /\ s.existing_filename # s.filename
          /\ id \in DOMAIN docs
          /\ docs[id].original_filename = s.existing_filename
          /\ docs[id].file_path \in disk
          /\ Cardinality(disk) = 1

\* C3: an upload whose check_duplicate saw no duplicate inserts its row
\* whatever rows the table holds by then, and reports the file uploaded; so two
\* overlapping uploads of the same text that both check before either inserts
\* leave two live rows with one content_hash.
C3_InsertDoesNotRecheck ==
  [][\A u \in Uploaders :
       (up[u].pc = "branch" /\ ~up[u].duplicate_check.is_duplicate
          /\ up'[u].pc = "loop")
       => /\ DOMAIN docs' = DOMAIN docs \cup {doc_seq + 1}
          /\ doc_seq + 1 \notin DOMAIN docs
          /\ docs'[doc_seq + 1].content_hash
               = up[u].duplicate_check.content_hash
          /\ \A id \in DOMAIN docs : docs'[id] = docs[id]
          /\ up'[u].uploaded_files = Append(up[u].uploaded_files,
               [id |-> doc_seq + 1, filename |-> up[u].original_filename,
                status |-> "success"])]_vars

\* Both requests report their file uploaded and the two rows are live with
\* the same content_hash.
C3_Witness ==
  \E e1 \in SeqToSet(up["u1"].uploaded_files),
     e2 \in SeqToSet(up["u2"].uploaded_files) :
    /\ e1.id # e2.id
    /\ e1.id \in DOMAIN docs
    /\ e2.id \in DOMAIN docs
    /\ docs[e1.id].content_hash = docs[e2.id].content_hash
    /\ docs[e1.id].content = docs[e2.id].content

\* C4: through any interleaving of user delete requests the set of admin users
\* never becomes empty.
C4_AdminNeverEmpty == AdminIds # {}

\* C5: delete_user on the only admin fails with the last-admin error, on an
\* id that is not there with the user-not-found error, and both leave the
\* users table as it was.
C5_DeleteUserRefusals ==
  [][\A a \in AdminReqs :
       (adm[a].pc = "role" /\ adm'[a].pc # "role")
       => /\ adm[a].user_id \notin DOMAIN users
               => /\ adm'[a].pc = "done"
                  /\ adm'[a].result = "user not found"
                  /\ users' = users
          /\ AdminIds = {adm[a].user_id}
               => /\ adm'[a].pc = "done"
                  /\ adm'[a].result = "last admin"
                  /\ users' = users]_vars

\* One call refused for the last admin, who is still there, and one for an id
\* that is not in the table.
C5_Witness ==
  \E a \in AdminReqs : \E b \in AdminReqs \ {a} :
    /\ adm[a].pc = "done"
    /\ adm[a].result = "last admin"
    /\ AdminIds = {adm[a].user_id}
    /\ adm[b].pc = "done"
    /\ adm[b].result = "user not found"
    /\ adm[b].user_id \notin DOMAIN users

\* C6: a file whose text extraction fails is stored all the same: its verdict
\* is never "duplicate", for every such file and not only the first.
C6_FailedExtractionStored ==
  \A u \in Uploaders :
    (up[u].pc = "branch" /\ ~up[u].extract_ok)
    => ~up[u].duplicate_check.is_duplicate

\* C7: a failure on one file never ends the request without its report,
\* whatever the position of the file in the batch.
C7_AlwaysReports == \A u \in Uploaders : up[u].pc # "crashed"

\* C8: every file of the batch, a file with an empty filename included, is in
\* one of the lists of the report.
C8_EveryFileReported ==
  \A u \in Uploaders : up[u].pc = "done" => Reported(u) = up[u].n

\* The binaries on disk that request u wrote.
WrittenBy(u) == {p \in disk : p[2][1] = u}

\* C9: once an upload request is over, every binary it wrote that is still on
\* disk is the file of a row it inserted (or of such a row a delete request
\* has removed and is about to unlink): nothing is left of skipped and failed
\* files.
C9_NoLeftoverBinary ==
  \A u \in Uploaders :
    up[u].pc \in {"done", "crashed"}
    => \A p \in WrittenBy(u) :
         \/ \E e \in SeqToSet(up[u].uploaded_files) :
              /\ e.id \in DOMAIN docs
              /\ docs[e.id].file_path = p
         \/ \E d \in Deleters :
              /\ del[d].pc = "unlink"
              /\ del[d].file_path = p

\* A finished request that skipped a duplicate and had a file fail after its
\* binary was written, with the first file's binary still on disk.
C9_Witness ==
  \E u \in Uploaders :
    /\ up[u].pc = "done"
    /\ up[u].skipped_files # <<>>
    /\ \E e \in SeqToSet(up[u].errors) : e.error = "exception"
    /\ disk # {}

\* The select of a delete request: a present id yields that row's file_path,
\* an absent one the not-found failure; nothing changes.
C10_Select ==
  \A d \in Deleters :
    (del[d].pc = "idle" /\ del'[d].pc # "idle")
    => /\ docs' = docs
       /\ disk' = disk
       /\ IF del'[d].doc_id \in DOMAIN docs
          THEN /\ del'[d].pc = "delete"
               /\ del'[d].file_path = docs[del'[d].doc_id].file_path
          ELSE /\ del'[d].pc = "done"
               /\ del'[d].result = "Document not found"

\* The delete of a delete request: exactly the row of the id goes, and the
\* result is success with the file_path read.
C10_Delete ==
  \A d \in Deleters :
    (del[d].pc = "delete" /\ del'[d].pc # "delete")
    => /\ DOMAIN docs' = DOMAIN docs \ {del[d].doc_id}
       /\ \A id \in DOMAIN docs' : docs'[id] = docs[id]
       /\ del'[d].result = "success"
       /\ del'[d].file_path = del[d].file_path

\* An id that was deleted stays absent.
C10_Gone ==
  \A d \in Deleters :
    del[d].result = "success" => del[d].doc_id \notin DOMAIN docs

\* C10: delete_document on a present id removes exactly that row and returns
\* success with the row's file_path; on the same id again, or on an id never
\* assigned, it returns not-found and changes nothing.
C10_DeleteSemantics ==
  /\ []C10_Gone
  /\ [][C10_Select /\ C10_Delete]_vars

\* A delete request answered not-found for an id that a row once had.
C10_Witness ==
  \E d \in Deleters :
    /\ del[d].pc = "done"
    /\ del[d].result = "Document not found"
    /\ del[d].doc_id <= doc_seq
    /\ docs # <<>>

\* The ids that were assigned so far, as the table and the requests show them.
AssignedIds ==
  DOMAIN docs
    \cup UNION {{e.id : e \in SeqToSet(up[u].uploaded_files)} : u \in Uploaders}
    \cup {del[d].doc_id : d \in {w \in DelWorkers : del[w].pc \in {"delete", "unlink"}
                                                     \/ del[w].result = "success"}}

\* C12: every insert_document returns an id strictly greater than every id
\* assigned before it, also after the row with the highest id was deleted.
C12_IdsNeverReused ==
  [][\A u \in Uploaders :
       (up[u].pc = "branch" /\ ~up[u].duplicate_check.is_duplicate
          /\ up'[u].pc = "loop")
       => \E id \in DOMAIN docs' :
            /\ DOMAIN docs' \ DOMAIN docs = {id}
            /\ \A a \in AssignedIds : a < id
            /\ up'[u].uploaded_files[Len(up'[u].uploaded_files)].id = id]_vars

\* Two inserts got the ids 1 and 2 and a delete removed document 1: whether the
\* delete came before or after the second insert, the ids are 1 and 2.
C12_Witness ==
  \E d \in Deleters :
    /\ del[d].result = "success"
    /\ del[d].doc_id = 1
    /\ DOMAIN docs = {2}
    /\ Len(up["u1"].uploaded_files) = 2

\* The types the data model allows, in lower case.
DocumentTypes ==
  { <<"p", "d", "f">>, <<"d", "o", "c">>, <<"d", "o", "c", "x">>,
    <<"x", "l", "s">>, <<"x", "l", "s", "x">>, <<"p", "p", "t">>,
    <<"p", "p", "t", "x">> }

\* The name ends in "." and one of the types, in either case.
HasDocumentType(name) ==
  \E t \in DocumentTypes :
    /\ Len(name) > Len(t)
    /\ name[Len(name) - Len(t)] = "."
    /\ LowerStr(SubSeq(name, Len(name) - Len(t) + 1, Len(name))) = t

C17_RowTypes == \A id \in DOMAIN docs : docs[id].file_type \in DocumentTypes

\* The step that takes the next file of the batch: a name of an allowed type
\* goes on to be saved; any other name that is not empty is appended to errors
\* with nothing written and no row inserted.
C17_OtherTypesRejected ==
  \A u \in Uploaders :
    (up[u].pc = "loop" /\ up'[u].n = up[u].n + 1 /\ up'[u] # [up[u] EXCEPT !.n = @ + 1])
    => \/ /\ HasDocumentType(up'[u].file)
          /\ up'[u].errors = up[u].errors
       \/ /\ up'[u].pc = "loop"
          /\ docs' = docs
          /\ disk' = disk
          /\ up'[u].uploaded_files = up[u].uploaded_files
          /\ up'[u].skipped_files = up[u].skipped_files
          /\ \E e \in SeqToSet(up'[u].errors) :
               /\ up'[u].errors = Append(up[u].errors, e)
               /\ e.filename # <<>>
               /\ ~HasDocumentType(e.filename)

\* C17: every stored row has a file_type of the allowed set, in lower case; a
\* file whose name has no extension or another extension is reported in errors
\* with no binary written and no row inserted.
C17_AllowedTypesOnly ==
  /\ []C17_RowTypes
  /\ [][C17_OtherTypesRejected]_vars

\* A finished request that stored a file sent with an upper-case extension
\* and reported a file without extension in errors.
C17_Witness ==
  /\ up["u1"].pc = "done"
  /\ \E id \in DOMAIN docs :
       /\ docs[id].original_filename = <<"b", ".", "P", "D", "F">>
       /\ docs[id].file_type = <<"p", "d", "f">>
  /\ \E e \in SeqToSet(up["u1"].errors) : e.filename = <<"n", "o">>
  /\ Cardinality(disk) = 1

\* query occurs in text as it is written.
Contains(text, query) ==
  \E k \in 0..(Len(text) - Len(query)) :
    SubSeq(text, k + 1, k + Len(query)) = query

\* C11: for a non-empty query, search_documents returns exactly the live
\* documents whose content holds the query as a case-sensitive literal
\* substring ("%" and "_" standing for themselves), each with the first 200
\* characters of its content as preview.
C11_SearchIsLiteral ==
  (rd.op = "search" /\ rd.query # <<>>)
  => /\ {rd.results[i].id : i \in DOMAIN rd.results}
          = {id \in DOMAIN docs : Contains(docs[id].content, rd.query)}
     /\ \A i \in DOMAIN rd.results :
          LET content == docs[rd.results[i].id].content
          IN rd.results[i].preview
               = [k \in 1..(IF Len(content) < 200 THEN Len(content) ELSE 200)
                    |-> content[k]]

\* C15: the documents of a search or list response come newest first: a
\* document inserted later (higher id) before one inserted earlier, two
\* documents of one clock second included.
C15_NewestFirst ==
  rd.op = "search"
  => \A i, j \in DOMAIN rd.results :
       i < j => rd.results[i].id > rd.results[j].id

\* The step that answers a read request: an empty query gets the list of all
\* documents (summaries, no preview), a query the matching documents with
\* previews; nothing but the response changes.
C16_ReadStep ==
  rd' # rd
  => /\ docs' = docs
     /\ doc_seq' = doc_seq
     /\ users' = users
     /\ disk' = disk
     /\ (rd'.op = "search" /\ rd'.query = <<>>)
          => /\ {rd'.results[i].id : i \in DOMAIN rd'.results} = DOMAIN docs
             /\ \A i \in DOMAIN rd'.results :
                  DOMAIN rd'.results[i]
                    = {"id", "original_filename", "file_type", "upload_date"}
     /\ (rd'.op = "search" /\ rd'.query # <<>>)
          => \A i \in DOMAIN rd'.results :
               /\ "preview" \in DOMAIN rd'.results[i]
               /\ Like(<<"%">> \o rd'.query \o <<"%">>,
                       docs[rd'.results[i].id].content)

\* C16: the search endpoint sends an empty or missing query to
\* get_all_documents and any other to search_documents; search, list, fetch by
\* id and download leave the two tables and the upload folder as they are.
C16_ReadsOnlyRead == [][C16_ReadStep]_vars

\* The list of a store of two documents, one of them not matching "a".
C16_Witness ==
  /\ rd.op = "search"
  /\ rd.query = <<>>
  /\ Len(rd.results) = 2
  /\ \E id \in DOMAIN docs : ~Like(<<"%", "a", "%">>, docs[id].content)

\* The step that inserts: the row holds the text and its fingerprint.
C18_InsertStores ==
  \A u \in Uploaders :
    (up[u].pc = "branch" /\ ~up[u].duplicate_check.is_duplicate
       /\ up'[u].pc = "loop")
    => LET id == up'[u].uploaded_files[Len(up'[u].uploaded_files)].id
       IN /\ id \in DOMAIN docs'
          /\ docs'[id].content = up[u].content
          /\ docs'[id].content_hash = calculate_content_hash(up[u].content)

\* A row stays as it was inserted for as long as it is live.
C18_RowsImmutable ==
  \A id \in DOMAIN docs \cap DOMAIN docs' : docs'[id] = docs[id]

\* Every live row is found by check_duplicate on its text and fetched by id
\* with this text.
C18_Retrievable ==
  \A id \in DOMAIN docs :
    docs[id].content_hash = calculate_content_hash(docs[id].content)
    => /\ check_duplicate(docs[id].content).is_duplicate
       /\ docs[check_duplicate(docs[id].content).existing_file.id].content
            = docs[id].content
       /\ get_document_by_id(id) # <<>>
       /\ get_document_by_id(id)[1].id = id
       /\ get_document_by_id(id)[1].content = docs[id].content

\* C18: a document inserted with text T and the fingerprint of T is, until it
\* is deleted, found by check_duplicate(T) and returned by get_document_by_id
\* with content T, whatever inserts and deletes of other ids happen meanwhile.
C18_RoundTrip ==
  /\ []C18_Retrievable
  /\ [][C18_InsertStores /\ C18_RowsImmutable]_vars

\* Document 2 is live with its text after document 1, inserted before it, was
\* deleted.
C18_Witness ==
  \E d \in Deleters :
    /\ del[d].result = "success"
    /\ del[d].doc_id = 1
    /\ del[d].pc = "done"
    /\ 2 \in DOMAIN docs
    /\ docs[2].content = <<"a">>
    /\ get_document_by_id(2)[1].content = <<"a">>

\* Requests are being served.
RequestsServed ==
  /\ boot.pc = "serving"
  /\ \/ up["u2"].pc # "idle"
     \/ \E d \in Deleters : del[d].pc # "idle"
     \/ rd.op # "none"

\* C13: whenever an upload, search or delete request is served, every row's
\* content_hash is the fingerprint of its content: for a store older than the
\* column too, and after a startup that was interrupted between adding the
\* column and committing the backfill and was then run again.
C13_HashesBackfilled ==
  RequestsServed
  => \A id \in DOMAIN docs :
       docs[id].content_hash = calculate_content_hash(docs[id].content)

\* After a completed run every row has the fingerprint of its content.
C14_Migrated ==
  boot.runs >= 1
  => \A id \in DOMAIN docs :
       docs[id].content_hash = calculate_content_hash(docs[id].content)

\* A run after the first completed one changes no document row.
C14_LaterRunsChangeNothing == boot.runs >= 1 => docs' = docs

\* C14: init_db run twice on an unmigrated store leaves the content_hash
\* values of one run, and every run after the first changes no document row.
C14_MigrationIdempotent ==
  /\ []C14_Migrated
  /\ [][C14_LaterRunsChangeNothing]_vars

\* Three runs were completed on a store that had rows and no content_hash.
C14_Witness ==
  /\ boot.runs = 3
  /\ boot.pc = "ready"
  /\ Len(docs) = 2
  /\ docs[1].content # docs[2].content

\* The live rows with the fingerprint of content.
LiveWithHash(content) ==
  {id \in DOMAIN docs : docs[id].content_hash = calculate_content_hash(content)}
    \ {del[d].doc_id : d \in {w \in DelWorkers : del[w].result = "success"}}

\* C19: check_duplicate(text) reports a duplicate exactly when a live row has
\* the fingerprint of text, the reported file being such a row; otherwise it
\* returns the fingerprint. So content whose document was deleted is accepted
\* again.
C19_DuplicateIffLiveRow ==
  [][\A u \in Uploaders :
       (up[u].pc = "loop" /\ up'[u].pc = "branch")
       => LET check == up'[u].duplicate_check
              live == LiveWithHash(up'[u].content)
          IN /\ check.is_duplicate <=> live # {}
             /\ check.is_duplicate =>
                  /\ check.existing_file.id \in live
                  /\ check.existing_file.original_filename
                       = docs[check.existing_file.id].original_filename
                  /\ check.existing_file.upload_date
                       = docs[check.existing_file.id].upload_date
             /\ ~check.is_duplicate =>
                  check.content_hash = calculate_content_hash(up'[u].content)]_vars

\* A request is over with every file of it stored, document 1 was deleted and
\* document 2 holds an extracted text under its fingerprint.
C19_Witness ==
  \E d \in Deleters :
    /\ del[d].result = "success"
    /\ del[d].doc_id = 1
    /\ DOMAIN docs = {2}
    /\ docs[2].content = <<"a">>
    /\ docs[2].content_hash = calculate_content_hash(<<"a">>)
    /\ up["u1"].uploaded_files # <<>>
    /\ up["u1"].skipped_files = <<>>
    /\ up["u1"].errors = <<>>
    /\ up["u1"].pc = "done"

\* C20: of the delete requests for one id, overlapping ones included, exactly
\* one reports success with the file path: no two report success.
C20_OneDeleteSucceeds ==
  \A d \in DelWorkers : \A e \in DelWorkers \ {d} :
    ~ /\ del[d].result = "success"
      /\ del[e].result = "success"
      /\ del[d].doc_id = del[e].doc_id

\* C21: the error cleanup of upload_files removes only the binary of the file
\* that failed: after an upload request the binary of every live row, rows
\* stored earlier in the same batch included, is on disk, also when a later
\* file raises before its own path is computed.
C21_CleanupKeepsLiveBinaries ==
  \A u \in Uploaders :
    up[u].pc = "done"
    => \A id \in DOMAIN docs : docs[id].file_path \in disk

=============================================================================
